---- MODULE Spec2Model ----
(***************************************************************************)
(* Model of similarities.ipynb: the WordEmbeddings store (read_embeddings, *)
(* make_embedding_map, __getitem__, get_cosine_similarity) and the         *)
(* similarity-matrix loop of the last notebook cell.                       *)
(*                                                                         *)
(* Python strings are sequences of one-character strings, so that          *)
(* str.lower, str.casefold, str.startswith, str.replace and slicing are    *)
(* computed as Python computes them.  Vectors are sequences of integers;   *)
(* a cosine is kept exactly, as the reduced fraction of its signed square  *)
(* (floating-point rounding is not modelled).  The lines of a vector file   *)
(* are well formed: a label followed by numeric coefficients, as many on   *)
(* every line.  One run of the body of the last cell is modelled, for one  *)
(* source identifier.                                                      *)
(***************************************************************************)
EXTENDS Integers, Sequences, FiniteSets, TLC

VARIABLES embedding_type, pc, opened, rows, word_vectors, vector_labels,
          dict, exception, li, k, df, stdout, saved

vars == <<embedding_type, pc, opened, rows, word_vectors, vector_labels,
          dict, exception, li, k, df, stdout, saved>>

----------------------------------------------------------------------------
(* Bounds of the model *)

\* number of rows of the vector file
MaxRows == 2

----------------------------------------------------------------------------
(* Strings *)

UpperCase == <<"A", "B", "C", "D", "E", "F", "G", "H", "I", "J", "K", "L", "M",
               "N", "O", "P", "Q", "R", "S", "T", "U", "V", "W", "X", "Y", "Z">>

LowerCase == <<"a", "b", "c", "d", "e", "f", "g", "h", "i", "j", "k", "l", "m",
               "n", "o", "p", "q", "r", "s", "t", "u", "v", "w", "x", "y", "z">>

UpperToLower ==
    [c \in {UpperCase[i] : i \in 1..Len(UpperCase)} |->
        LowerCase[CHOOSE i \in 1..Len(UpperCase) : UpperCase[i] = c]]

LowerChar(c) == IF c \in DOMAIN UpperToLower THEN UpperToLower[c] ELSE c

\* str.lower() (and str.casefold(), which agrees with it on ASCII)
Lower(s) == [i \in 1..Len(s) |-> LowerChar(s[i])]

\* str.startswith(p)
StartsWith(s, p) == Len(s) >= Len(p) /\ SubSeq(s, 1, Len(p)) = p

\* s[n:]
DropFirst(s, n) == SubSeq(s, n + 1, Len(s))

\* str.replace(old, ''): every non-overlapping occurrence, left to right
RECURSIVE Replace(_, _)
Replace(s, old) ==
    IF Len(s) < Len(old) \/ Len(old) = 0 THEN s
    ELSE IF StartsWith(s, old) THEN Replace(DropFirst(s, Len(old)), old)
    ELSE <<s[1]>> \o Replace(Tail(s), old)

\* word[2:-1]
Slice2m1(s) == SubSeq(s, 3, Len(s) - 1)

----------------------------------------------------------------------------
(* Source identifiers, file names, raw labels, vectors, word lists *)

T_word2vec == <<"w", "o", "r", "d", "2", "v", "e", "c">>
T_glove == <<"g", "l", "o", "v", "e">>
T_conceptnet == <<"c", "o", "n", "c", "e", "p", "t", "n", "e", "t">>
T_conceptnetnb == T_conceptnet \o <<"n", "b">>

\* identifiers a run may be started with: the three of the notebook's last
\* cell, a differently cased alias, and the fastText of the class docstring
EmbeddingTypes ==
    { T_word2vec,
      <<"G", "l", "o", "V", "e">>,
      <<"C", "o", "n", "c", "e", "p", "t", "N", "e", "t">>,
      <<"C", "o", "n", "c", "e", "p", "t", "N", "e", "t", "N", "B">>,
      <<"f", "a", "s", "t", "T", "e", "x", "t">> }

prefix == <<"/", "c", "/", "d", "e", "/">>

\* first tokens of the lines of each vector file, in the file's own format:
\* b'...' reprs for word2vec, bare words for GloVe, /c/<language>/ terms for
\* ConceptNet Numberbatch
FileLabels(path) ==
    IF path = "ger_word2vec_vectors.txt"
    THEN { <<"b", "'", "a", "'">>, <<"b", "'", "A", "'">>, <<"b", "'", "b", "'">> }
    ELSE IF path = "ger_glove_vectors.txt"
    THEN { <<"a">>, <<"A">>, <<"b">> }
    ELSE { prefix \o <<"a">>, prefix \o <<"b">>,
           <<"/", "c", "/", "e", "n", "/", "a">>,
           prefix \o <<"a">> \o prefix }

\* the coefficients of a line (every line of a file has the same number of
\* them): the zero vector and two vectors that are neither equal nor parallel
Vectors == { <<0, 0>>, <<1, 0>>, <<1, 1>> }

\* the hard-coded word lists (capitalised nouns in the notebook)
List_A == << <<"A">>, <<"b">>, <<"C">> >>
List_C == << <<"a">>, <<"B">> >>

named_lists == << <<"List_A", List_A>>, <<"List_C", List_C>> >>

----------------------------------------------------------------------------
(* Values *)

None == [kind |-> "None"]
NaN == [kind |-> "NaN"]

RECURSIVE GCD(_, _)
GCD(a, b) == IF b = 0 THEN a ELSE GCD(b, a % b)

Abs(n) == IF n < 0 THEN 0 - n ELSE n

\* the float whose signed square is num/den
Float(num, den) ==
    LET g == GCD(Abs(num), den)
    IN  [kind |-> "float", num |-> num \div g, den |-> den \div g]

One == Float(1, 1)
Zero == Float(0, 1)

RECURSIVE Dot(_, _)
Dot(v1, v2) ==
    IF v1 = <<>> THEN 0 ELSE v1[1] * v2[1] + Dot(Tail(v1), Tail(v2))

IsZero(v) == \A i \in 1..Len(v) : v[i] = 0

\* cosine_similarity dividing by the first row's norm only
cosine_similarity_FirstNormOnly(v1, v2) ==
    LET d  == Dot(v1, v2)
        n1 == IF Dot(v1, v1) = 0 THEN 1 ELSE Dot(v1, v1)
    IN  Float(IF d < 0 THEN 0 - d * d ELSE d * d, n1 * n1)

\* sklearn.metrics.pairwise.cosine_similarity on two 1 x d rows: each row is
\* divided by its norm, a zero norm being replaced by 1, then the dot product
cosine_similarity(v1, v2) ==
    LET d  == Dot(v1, v2)
        n1 == IF Dot(v1, v1) = 0 THEN 1 ELSE Dot(v1, v1)
        n2 == IF Dot(v2, v2) = 0 THEN 1 ELSE Dot(v2, v2)
    IN  Float(IF d < 0 THEN 0 - d * d ELSE d * d, n1 * n2)

----------------------------------------------------------------------------
(* read_embeddings *)

\* read_embeddings whose last branch takes every other identifier
ReadEmbeddingsPath_NoRaise(t) ==
    IF Lower(t) = T_word2vec THEN "ger_word2vec_vectors.txt"
    ELSE IF Lower(t) = T_glove THEN "ger_glove_vectors.txt"
    ELSE "conceptnet_vectors.txt"

\* the branch read_embeddings takes: the file it reads, or the ValueError
ReadEmbeddingsPath(t) ==
    IF Lower(t) = T_word2vec THEN "ger_word2vec_vectors.txt"
    ELSE IF Lower(t) = T_glove THEN "ger_glove_vectors.txt"
    ELSE IF Lower(t) \in {T_conceptnetnb, T_conceptnet} THEN "conceptnet_vectors.txt"
    ELSE "ValueError"

\* does the branch of t append the row labelled word
Accepts(t, word) ==
    IF Lower(t) \in {T_conceptnetnb, T_conceptnet} THEN StartsWith(word, prefix)
    ELSE TRUE

\* the label the branch of t appends for the row labelled word
Label(t, word) ==
    IF Lower(t) = T_word2vec THEN Slice2m1(word)
    ELSE IF Lower(t) = T_glove THEN word
    ELSE Replace(word, prefix)

\* a map that keeps the first vector of a label (dict.setdefault)
RECURSIVE make_embedding_map_FirstWins(_, _)
make_embedding_map_FirstWins(wv, vl) ==
    IF wv = <<>> \/ vl = <<>> THEN <<>>
    ELSE LET n == IF Len(wv) < Len(vl) THEN Len(wv) ELSE Len(vl)
             m == make_embedding_map_FirstWins(SubSeq(wv, 1, n - 1), SubSeq(vl, 1, n - 1))
         IN  m @@ (vl[n] :> wv[n])

\* dict(zip(vector_labels, word_vectors)): later pairs overwrite earlier ones
RECURSIVE make_embedding_map(_, _)
make_embedding_map(wv, vl) ==
    IF wv = <<>> \/ vl = <<>> THEN <<>>
    ELSE LET n == IF Len(wv) < Len(vl) THEN Len(wv) ELSE Len(vl)
             m == make_embedding_map(SubSeq(wv, 1, n - 1), SubSeq(vl, 1, n - 1))
         IN  (vl[n] :> wv[n]) @@ m

----------------------------------------------------------------------------
(* WordEmbeddings *)

\* __getitem__ written as self.dict[key]: an absent key raises KeyError
GetItem_KeyError(t, d, key) ==
    LET kk == IF Lower(t) \in {T_word2vec, T_glove, T_conceptnet, T_conceptnetnb}
              THEN Lower(key) ELSE key
    IN  IF kk \in DOMAIN d THEN [kind |-> "vec", v |-> d[kk]] ELSE [kind |-> "KeyError"]

\* __getitem__
GetItem(t, d, key) ==
    LET kk == IF Lower(t) \in {T_word2vec, T_glove, T_conceptnet, T_conceptnetnb}
              THEN Lower(key) ELSE key
    IN  IF kk \in DOMAIN d THEN [kind |-> "vec", v |-> d[kk]] ELSE None

\* get_cosine_similarity without the test of v2: None.reshape raises
get_cosine_similarity_NoSecondTest(t, d, w1, w2) ==
    LET v1 == GetItem(t, d, w1)
        v2 == GetItem(t, d, w2)
    IN  IF v1 = None
        THEN [ret |-> None, out |-> << <<"no vectors for word", w1>> >>]
        ELSE IF v2 = None
        THEN [ret |-> [kind |-> "AttributeError"], out |-> <<>>]
        ELSE [ret |-> cosine_similarity(v1.v, v2.v), out |-> <<>>]

\* get_cosine_similarity that looks both words up before it reports
get_cosine_similarity_ReportsBoth(t, d, w1, w2) ==
    LET v1 == GetItem(t, d, w1)
        v2 == GetItem(t, d, w2)
        o1 == IF v1 = None THEN << <<"no vectors for word", w1>> >> ELSE <<>>
        o2 == IF v2 = None THEN << <<"no vectors for word", w2>> >> ELSE <<>>
    IN  IF v1 = None \/ v2 = None
        THEN [ret |-> None, out |-> o1 \o o2]
        ELSE [ret |-> cosine_similarity(v1.v, v2.v), out |-> <<>>]

\* get_cosine_similarity: the value returned and the lines printed
get_cosine_similarity(t, d, w1, w2) ==
    LET v1 == GetItem(t, d, w1)
        v2 == GetItem(t, d, w2)
    IN  IF v1 = None
        THEN [ret |-> None, out |-> << <<"no vectors for word", w1>> >>]
        ELSE IF v2 = None
        THEN [ret |-> None, out |-> << <<"no vectors for word", w2>> >>]
        ELSE [ret |-> cosine_similarity(v1.v, v2.v), out |-> <<>>]

----------------------------------------------------------------------------
(* The similarity-matrix loop *)

Range(s) == {s[i] : i \in 1..Len(s)}

\* the pairs of combinations_with_replacement: the upper triangle only
Product_UpperTriangle(l) ==
    LET all == [i \in 1..(Len(l) * Len(l)) |->
                  <<((i - 1) \div Len(l)) + 1, ((i - 1) % Len(l)) + 1>>]
        IsUpper(p) == p[1] <= p[2]
        up == SelectSeq(all, IsUpper)
    IN  [i \in 1..Len(up) |-> <<l[up[i][1]], l[up[i][2]]>>]

\* list(product(list_words, repeat=2))
Product(l) ==
    [i \in 1..(Len(l) * Len(l)) |->
        <<l[((i - 1) \div Len(l)) + 1], l[((i - 1) % Len(l)) + 1]>>]

\* pd.DataFrame(columns=list_words, index=list_words): df[column][row]
DataFrame(columns, index) ==
    [columns |-> columns, index |-> index,
     cell |-> [c \in Range(columns) |-> [r \in Range(index) |-> NaN]]]

list_name == named_lists[li][1]
list_words == named_lists[li][2]
word_combinations == Product(list_words)

----------------------------------------------------------------------------
(* Actions *)

Init ==
    /\ embedding_type \in EmbeddingTypes
    /\ pc = "start"
    /\ opened = <<>>
    /\ rows = <<>>
    /\ word_vectors = <<>>
    /\ vector_labels = <<>>
    /\ dict = <<>>
    /\ exception = "none"
    /\ li = 1
    /\ k = 0
    /\ df = DataFrame(<<>>, <<>>)
    /\ stdout = <<>>
    /\ saved = <<>>

\* WordEmbeddings(embedding_type) up to the first line of the file:
\* read_embeddings selects its branch and opens the file, or raises
Load ==
    /\ pc = "start"
    /\ stdout' = Append(stdout, <<"Load", embedding_type>>)
    /\ IF ReadEmbeddingsPath(embedding_type) = "ValueError"
       THEN /\ exception' = "ValueError"
            /\ pc' = "raised"
            /\ UNCHANGED opened
       ELSE /\ opened' = Append(opened, ReadEmbeddingsPath(embedding_type))
            /\ pc' = "reading"
            /\ UNCHANGED exception
    /\ UNCHANGED <<embedding_type, rows, word_vectors, vector_labels, dict,
                   li, k, df, saved>>

\* one iteration of the loop over embeddings_reader
ReadRow ==
    /\ pc = "reading"
    /\ Len(rows) < MaxRows
    /\ \E word \in FileLabels(opened[Len(opened)]), coefs \in Vectors :
          /\ rows' = Append(rows, <<word, coefs>>)
          /\ IF Accepts(embedding_type, word)
             THEN /\ word_vectors' = Append(word_vectors, coefs)
                  /\ vector_labels' = Append(vector_labels, Label(embedding_type, word))
             ELSE UNCHANGED <<word_vectors, vector_labels>>
    /\ UNCHANGED <<embedding_type, pc, opened, dict, exception, li, k, df,
                   stdout, saved>>

\* end of the file: np.vstack for GloVe (it raises on an empty list), the
\* return of read_embeddings, and make_embedding_map
EndOfFile ==
    /\ pc = "reading"
    /\ IF Lower(embedding_type) = T_glove /\ word_vectors = <<>>
       THEN /\ exception' = "ValueError"
            /\ pc' = "raised"
            /\ UNCHANGED dict
       ELSE /\ dict' = make_embedding_map(word_vectors, vector_labels)
            /\ pc' = "ready"
            /\ UNCHANGED exception
    /\ UNCHANGED <<embedding_type, opened, rows, word_vectors, vector_labels,
                   li, k, df, stdout, saved>>

\* the head of the loop over named_lists, up to word_combinations
BeginList ==
    /\ pc = "ready"
    /\ stdout' = Append(stdout, <<"compute similarities for", list_name>>)
    /\ df' = DataFrame(list_words, list_words)
    /\ k' = 0
    /\ pc' = "loop"
    /\ UNCHANGED <<embedding_type, opened, rows, word_vectors, vector_labels,
                   dict, exception, li, saved>>

\* df[w1][w2] = embeddings.get_cosine_similarity(w1, w2): the value goes to
\* column w1, row w2, and the call's diagnostics to the console
ComputeCell ==
    /\ pc = "loop"
    /\ k < Len(word_combinations)
    /\ LET w1 == word_combinations[k + 1][1]
           w2 == word_combinations[k + 1][2]
           r  == get_cosine_similarity(embedding_type, dict, w1, w2)
       IN  /\ df' = [df EXCEPT !.cell[w1][w2] = r.ret]
           /\ stdout' = stdout \o r.out
    /\ k' = k + 1
    /\ UNCHANGED <<embedding_type, pc, opened, rows, word_vectors,
                   vector_labels, dict, exception, li, saved>>

\* df.to_csv(fname) and the step to the next list
SaveList ==
    /\ pc = "loop"
    /\ k = Len(word_combinations)
    /\ stdout' = Append(stdout, <<"save to file", list_name, embedding_type>>)
    /\ saved' = Append(saved, [list_name |-> list_name,
                               embedding_type |-> embedding_type, df |-> df])
    /\ IF li < Len(named_lists)
       THEN li' = li + 1 /\ pc' = "ready"
       ELSE li' = li /\ pc' = "done"
    /\ UNCHANGED <<embedding_type, opened, rows, word_vectors, vector_labels,
                   dict, exception, k, df>>

Next ==
    \/ Load
    \/ ReadRow
    \/ EndOfFile
    \/ BeginList
    \/ ComputeCell
    \/ SaveList

Spec == Init /\ [][Next]_vars

----------------------------------------------------------------------------
(* Vocabulary of the properties *)

\* the store exists: WordEmbeddings.__init__ has returned
Constructed == pc \in {"ready", "loop", "done"}

\* words a caller may ask the store about
QueryWords == {<<"a">>, <<"A">>, <<"b">>, <<"B">>, <<"C">>} \cup DOMAIN dict

\* the four identifiers the loader recognises, compared case-insensitively
Supported(t) == Lower(t) \in {T_word2vec, T_glove, T_conceptnet, T_conceptnetnb}

IsConceptNet(t) == Lower(t) \in {T_conceptnet, T_conceptnetnb}

\* the store holds no vector for w: neither w nor its lowercase form is a key
NoVector(w) == w \notin DOMAIN dict /\ Lower(w) \notin DOMAIN dict

\* the lookup of w yields nothing
Missing(w) == GetItem(embedding_type, dict, w) = None

GCS(w1, w2) == get_cosine_similarity(embedding_type, dict, w1, w2)

\* the pairs the loop of the current list has been through
Visited == SubSeq(word_combinations, 1, k)

----------------------------------------------------------------------------
(* C1 *)

\* C1: for every key w of the store's mapping whose vector is non-zero,
\* whatever the letter case of w, get_cosine_similarity(w, w) returns 1
C1_SelfSimilarityOfEveryKey ==
    Constructed =>
        \A w \in DOMAIN dict :
            ~IsZero(dict[w]) => GCS(w, w).ret = One

----------------------------------------------------------------------------
(* C2 *)

\* C2: for every word w without a vector in the store the lookup returns
\* None, and get_cosine_similarity(w, x) and get_cosine_similarity(x, w)
\* return None for every word x, in the store or not; nothing is raised
C2_MissingWordYieldsNone ==
    Constructed =>
        /\ exception = "none"
        /\ \A w \in QueryWords :
              NoVector(w) =>
                  /\ GetItem(embedding_type, dict, w) = None
                  /\ \A x \in QueryWords :
                        /\ GCS(w, x).ret = None
                        /\ GCS(x, w).ret = None

\* the loop has asked for (w, x) and for (x, w), w without a vector and x
\* with one, and both cells are None
C2_Witness ==
    /\ pc = "loop"
    /\ \E i, j \in 1..k :
          LET w == Visited[i][1]
              x == Visited[i][2]
          IN  /\ Visited[j] = <<x, w>>
              /\ NoVector(w)
              /\ ~Missing(x)
              /\ df.cell[w][x] = None
              /\ df.cell[x][w] = None

----------------------------------------------------------------------------
(* C3 *)

\* C3: for all words w1, w2 of the store, get_cosine_similarity(w1, w2)
\* returns what get_cosine_similarity(w2, w1) returns, None included
C3_Symmetry ==
    Constructed =>
        \A w1, w2 \in DOMAIN dict : GCS(w1, w2).ret = GCS(w2, w1).ret

\* the loop has computed both orders of two words with different non-zero
\* vectors, and the two cells hold the same number
C3_Witness ==
    /\ pc = "loop"
    /\ \E i, j \in 1..k :
          LET w1 == Visited[i][1]
              w2 == Visited[i][2]
          IN  /\ Visited[j] = <<w2, w1>>
              /\ ~Missing(w1) /\ ~Missing(w2)
              /\ Lower(w1) \in DOMAIN dict /\ Lower(w2) \in DOMAIN dict
              /\ dict[Lower(w1)] # dict[Lower(w2)]
              /\ ~IsZero(dict[Lower(w1)]) /\ ~IsZero(dict[Lower(w2)])
              /\ df.cell[w1][w2].kind = "float"
              /\ df.cell[w1][w2] = df.cell[w2][w1]

----------------------------------------------------------------------------
(* C4 *)

RowHasPrefix(row) == StartsWith(row[1], prefix)

\* C4: the ConceptNet loader accepts a row if and only if its raw label
\* starts with /c/de/, and the label it keeps is the raw label with that one
\* leading prefix removed, the rest unchanged; other rows contribute nothing
C4_ConceptNetStripsLeadingPrefix ==
    IsConceptNet(embedding_type) =>
        LET acc == SelectSeq(rows, RowHasPrefix)
        IN  /\ vector_labels = [i \in 1..Len(acc) |-> DropFirst(acc[i][1], Len(prefix))]
            /\ word_vectors = [i \in 1..Len(acc) |-> acc[i][2]]

----------------------------------------------------------------------------
(* C5 *)

\* frame is the finished matrix of words: labelled by words on both axes, the
\* cell of row r and column c holding what get_cosine_similarity(r, c) returns
MatrixOf(words, frame) ==
    /\ frame.columns = words
    /\ frame.index = words
    /\ \A r, c \in Range(words) : frame.cell[c][r] = GCS(r, c).ret

\* C5: for a list of N words the loop goes through all N*N ordered pairs,
\* self-pairs included, and when it has finished the cell of row r and column
\* c holds the value of get_cosine_similarity(r, c), rows and columns being
\* labelled by the word list in its order
C5_MatrixHoldsAllPairs ==
    /\ (pc = "loop" /\ k = Len(word_combinations)) =>
          /\ k = Len(list_words) * Len(list_words)
          /\ Range(Visited) = Range(list_words) \X Range(list_words)
          /\ MatrixOf(list_words, df)
    /\ \A i \in 1..Len(saved) :
          /\ saved[i].list_name = named_lists[i][1]
          /\ MatrixOf(named_lists[i][2], saved[i].df)

\* both matrices are written and the first one holds a similarity that is
\* neither 0 nor 1 off its diagonal
C5_Witness ==
    /\ pc = "done"
    /\ Len(saved) = Len(named_lists)
    /\ \E r, c \in Range(List_A) :
          /\ r # c
          /\ saved[1].df.cell[c][r].kind = "float"
          /\ saved[1].df.cell[c][r] \notin {Zero, One}

----------------------------------------------------------------------------
(* C6 *)

\* C6: when a word of the list has no vector the loop still fills all N*N
\* cells: the cells of that word's row and column, and only those, are
\* missing, every other cell holds a number, and nothing is raised
C6_MissingWordBlanksRowAndColumn ==
    /\ pc = "raised" => (k = 0 /\ saved = <<>> /\ df = DataFrame(<<>>, <<>>))
    /\ \A i \in 1..Len(saved) :
          LET words == named_lists[i][2]
              cell  == saved[i].df.cell
          IN  (\E w \in Range(words) : Missing(w)) =>
                 \A r, c \in Range(words) :
                    /\ r \in DOMAIN cell[c]
                    /\ (Missing(r) \/ Missing(c)) => cell[c][r] = None
                    /\ (~Missing(r) /\ ~Missing(c)) => cell[c][r].kind = "float"

\* the matrix of List_A is written with one word missing and two words found
C6_Witness ==
    /\ Len(saved) >= 1
    /\ \E w \in Range(List_A) :
          /\ Missing(w)
          /\ \A x \in Range(List_A) \ {w} :
                /\ ~Missing(x)
                /\ saved[1].df.cell[w][x] = None
                /\ saved[1].df.cell[x][w] = None
                /\ saved[1].df.cell[x][x].kind = "float"

----------------------------------------------------------------------------
(* C7 *)

\* C7: with a source identifier that is not, case-insensitively, one of
\* word2vec, glove, conceptnet, conceptnetnb the construction fails with a
\* ValueError before any file is opened or read, and no label list, vector
\* list, mapping or store comes to exist
C7_UnsupportedSourceRaises ==
    ~Supported(embedding_type) =>
        /\ pc \in {"start", "raised"}
        /\ pc = "raised" => exception = "ValueError"
        /\ opened = <<>>
        /\ rows = <<>>
        /\ word_vectors = <<>>
        /\ vector_labels = <<>>
        /\ dict = <<>>
        /\ saved = <<>>

\* the construction with an unsupported identifier has raised
C7_Witness ==
    /\ ~Supported(embedding_type)
    /\ pc = "raised"
    /\ exception = "ValueError"
    /\ opened = <<>>

----------------------------------------------------------------------------
(* C8 *)

AcceptedRow(row) == Accepts(embedding_type, row[1])

\* the number of the last accepted row whose normalised label is l
LastRowOf(acc, l) ==
    CHOOSE i \in 1..Len(acc) :
        /\ Label(embedding_type, acc[i][1]) = l
        /\ \A j \in (i + 1)..Len(acc) : Label(embedding_type, acc[j][1]) # l

\* C8: the keys of the mapping are the normalised labels of the accepted
\* rows, each once, and the vector under a label is that of the last
\* accepted row of the file with that label, for every loader
C8_LastWriteWins ==
    Constructed =>
        LET acc    == SelectSeq(rows, AcceptedRow)
            labels == {Label(embedding_type, acc[i][1]) : i \in 1..Len(acc)}
        IN  /\ DOMAIN dict = labels
            /\ \A l \in labels : dict[l] = acc[LastRowOf(acc, l)][2]

\* a GloVe file with two rows of one label and different vectors has been
\* loaded, and the mapping holds the later vector
C8_Witness ==
    /\ Constructed
    /\ Lower(embedding_type) = T_glove
    /\ \E i, j \in 1..Len(rows) :
          /\ i < j
          /\ rows[i][1] = rows[j][1]
          /\ rows[i][2] # rows[j][2]
          /\ \A m \in (j + 1)..Len(rows) : rows[m][1] # rows[j][1]
          /\ dict[rows[j][1]] = rows[j][2]

----------------------------------------------------------------------------
(* C9 *)

IsDiagnostic(line) == line[1] = "no vectors for word"

\* the diagnostics printed so far
Diagnostics == SelectSeq(stdout, IsDiagnostic)

\* the pairs get_cosine_similarity has been called with so far, in order
RECURSIVE PairsOfLists(_)
PairsOfLists(n) ==
    IF n = 0 THEN <<>> ELSE PairsOfLists(n - 1) \o Product(named_lists[n][2])

Calls ==
    IF pc = "done" THEN PairsOfLists(Len(named_lists))
    ELSE IF pc = "loop" THEN PairsOfLists(li - 1) \o Visited
    ELSE IF pc = "ready" THEN PairsOfLists(li - 1)
    ELSE <<>>

\* the one diagnostic a call with a missing word owes: the first argument if
\* it is missing, otherwise the second
RECURSIVE DiagnosticsOwed(_)
DiagnosticsOwed(pairs) ==
    IF pairs = <<>> THEN <<>>
    ELSE LET w1 == pairs[1][1]
             w2 == pairs[1][2]
         IN  (IF Missing(w1) THEN << <<"no vectors for word", w1>> >>
              ELSE IF Missing(w2) THEN << <<"no vectors for word", w2>> >>
              ELSE <<>>) \o DiagnosticsOwed(Tail(pairs))

\* C9: a call that returns None prints exactly one diagnostic, naming the
\* first argument if it has no vector and otherwise the second; a call that
\* returns a value prints none; the diagnostics are not deduplicated, the
\* matrix loop printing one per ordered pair with a missing word
C9_OneDiagnosticPerMissingCall ==
    Constructed =>
        /\ \A w1, w2 \in QueryWords :
              LET r == GCS(w1, w2)
              IN  IF r.ret = None
                  THEN /\ Len(r.out) = 1
                       /\ r.out[1][1] = "no vectors for word"
                       /\ r.out[1][2] = (IF Missing(w1) THEN w1 ELSE w2)
                       /\ Missing(r.out[1][2])
                  ELSE r.out = <<>>
        /\ Diagnostics = DiagnosticsOwed(Calls)

\* both matrices are done, one word was reported more than once and some
\* call returned a value
C9_Witness ==
    /\ pc = "done"
    /\ \E i, j \in 1..Len(Diagnostics) : i # j /\ Diagnostics[i] = Diagnostics[j]
    /\ Len(Diagnostics) < Len(Calls)

----------------------------------------------------------------------------
(* C10 *)

\* C10: when both words are found and at least one of the two vectors is the
\* zero vector, get_cosine_similarity returns None
C10_ZeroVectorYieldsNone ==
    Constructed =>
        \A w1, w2 \in QueryWords :
            LET v1 == GetItem(embedding_type, dict, w1)
                v2 == GetItem(embedding_type, dict, w2)
            IN  (v1 # None /\ v2 # None /\ (IsZero(v1.v) \/ IsZero(v2.v)))
                    => GCS(w1, w2).ret = None

====
